---- MODULE Spec2Model ----
(***************************************************************************)
(* Client-side encryption session of CentStack: the EncryptionProvider     *)
(* (session controller), the IndexedDB key store, the WebAuthn credential  *)
(* map, the Settings page handlers and the encryption_settings backend.    *)
(*                                                                         *)
(* Cryptography is modelled symbolically: a derived key is the pair of the *)
(* passphrase and the salt it was stretched from, a ciphertext names the   *)
(* key and IV that produced it, and decryption succeeds only under that    *)
(* very key.                                                               *)
(***************************************************************************)
EXTENDS Naturals, FiniteSets, Sequences, TLC

\* ------------------------------------------------------------------ bounds
MaxSalt == 3          \* salts generateSalt can return before the run ends
MaxIV == 1            \* encrypt draws its IV from 1..MaxIV
MaxVault == 1         \* encryptValue results remembered for later decryption
MaxInFlight == 1      \* handler calls started by the user and not yet settled
MaxEnrolled == 1      \* accounts of this browser that enable encryption
MaxRecords == 1       \* rows of the transactions table
MaxCorpus == 2        \* rows of a corpus handed to useDecryptedTransactions
MaxImport == 201      \* valid rows of an imported CSV file
MaxPasses == 2        \* decryptAll() calls of the hook that have not returned

\* --------------------------------------------------------- program constants
MIN_PASSPHRASE_LEN == 8
\* CSVImport: rows per createMany call; createMany: rows it accepts per call
BATCH_SIZE == 100
MAX_BATCH == 100
\* INACTIVITY_MS (5 min), counted in ticks of the clock
InactivityTicks == 1

VERIFICATION_PLAINTEXT == "centstack-verify"

\* ------------------------------------------------------------------ domains
Users == {"A", "B"}
None == "none"                       \* no authenticated user (useUser: null)
\* what the user types: the passphrase chosen at setup, another one of valid
\* length, and one below the minimum length
Chosen == {"correct-horse-battery", "short"}
Typed == {"correct-horse-battery", "wrong-passphrase"}
Passphrases == Chosen \cup Typed
Plaintexts == {"42.50"}
Amounts == {"42.50"}            \* numeric strings
Descriptions == {"coffee"}
FormRows == {[amount |-> a, description |-> d] : a \in Amounts, d \in Descriptions}
\* the valid rows of a parsed CSV file
ImportRows == UNION {[1..n -> FormRows] : n \in 1..MaxRecords}
Salts == 1..MaxSalt
IVs == 1..MaxIV

NoKey == [pass |-> "", salt |-> 0]   \* cryptoKey === null / loadKey -> null
Plain(s) == [kind |-> "plain", pt |-> s, key |-> NoKey, iv |-> 0]
NoSettings == [salt |-> [b64 |-> 0], verificationHash |-> Plain("")]

\* --------------------------------------------------- lib/encryption (pure)
deriveKey(passphrase, salt) == [pass |-> passphrase, salt |-> salt]

\* every key a passphrase and a salt of the model can make
Keys == {deriveKey(p, n) : p \in Passphrases, n \in Salts}

encryptLosesPlaintext(plaintext, key, iv) ==
  [kind |-> "enc", pt |-> "", key |-> key, iv |-> iv]

encrypt(plaintext, key, iv) ==
  [kind |-> "enc", pt |-> plaintext, key |-> key, iv |-> iv]

\* decrypt throws unless the input is a ciphertext made under this very key
\* (atob of a non-base64 string throws, AES-GCM rejects a wrong key).
decrypt(encoded, key) ==
  IF encoded.kind = "enc" /\ encoded.key = key /\ key # NoKey
    THEN [ok |-> TRUE, val |-> encoded.pt]
    ELSE [ok |-> FALSE, val |-> ""]

createVerificationHash(key, iv) == encrypt(VERIFICATION_PLAINTEXT, key, iv)

verifyPassphraseAlwaysTrue(key, storedHash) == TRUE

verifyPassphrase(key, storedHash) ==
  LET result == decrypt(storedHash, key)
  IN  IF result.ok THEN result.val = VERIFICATION_PLAINTEXT ELSE FALSE

\* generateSalt: 16 random bytes, which never repeat a salt in use; the model
\* hands out the least salt no settings record holds
generateSalt(table) ==
  CHOOSE s \in Salts :
    /\ \A u \in Users : table[u].salt # [b64 |-> s]
    /\ \A t \in Salts :
         (\A u \in Users : table[u].salt # [b64 |-> t]) => s <= t

saltToBase64(salt) == [b64 |-> salt]
base64ToSalt(b) == b.b64

\* ------------------------------------------------------------------- state
VARIABLES
  db,          \* backend table encryption_settings: user -> settings | NoSettings
  keyStore,    \* IndexedDB store "keys": user -> CryptoKey | NoKey
  cred,        \* localStorage cs-bio-<user>: TRUE iff a credential id is stored
  user,        \* useUser(): the authenticated user or None
  settings,    \* useQuery(encryptionSettings.get): the client's view
  cryptoKey,   \* useState cryptoKey
  showSetup,   \* useState showSetup
  showUnlock,  \* useState showUnlock
  hasBio,      \* hasBio as computed by the provider's last render
  restorePending, \* restore effect: loadKey(user.id) in flight, not cancelled
  promptArmed, \* show-unlock effect: the 350 ms timeout is pending
  setupCall,   \* the handleSetup call in flight
  setupDlg,    \* SetupDialog local state
  unlockCall,  \* the handleUnlock call in flight
  bioCall,     \* the handleBiometricUnlock call in flight
  unlockDlg,   \* UnlockDialog local state
  changeCall,  \* the ChangePassphraseModal.handleSubmit call in flight
  vault,       \* results of encryptValue calls, kept to decrypt later
  inserts,     \* documents ever inserted into encryption_settings, per user
  records,     \* backend table transactions
  decrypted,   \* useDecryptedTransactions: useState decrypted
  write,       \* the AddTransaction / CSV import submission in flight
  scenario,    \* how far the session has followed setup / lock / unlock
  outcome,     \* what the step just taken settled ("none": nothing)
  idle,        \* ticks run by the inactivity timeout since it was last set
  away,        \* the user has left the device: no input from now on
  timedOut,    \* the inactivity lock locked this user, not authenticated since
  passes       \* useDecryptedTransactions: decryptAll() calls not yet returned

session == <<db, keyStore, cred, user, settings, cryptoKey, showSetup,
             showUnlock, hasBio, restorePending, promptArmed, setupCall,
             setupDlg, unlockCall, bioCall, unlockDlg, changeCall, vault,
             inserts, records, write, decrypted, scenario, timedOut,
             passes>>

untimed == <<session, outcome, away>>

vars == <<untimed, idle>>

IdleSetup == [pc |-> "idle", uid |-> None, pass |-> "", key |-> NoKey,
              bio |-> FALSE, ok |-> FALSE]
IdleUnlock == [pc |-> "idle", uid |-> None, pass |-> "", key |-> NoKey,
               valid |-> FALSE]
IdleBio == [pc |-> "idle", uid |-> None]
IdleChange == [pc |-> "idle", uid |-> None, next |-> "", key |-> NoKey,
               ok |-> FALSE]
ClosedSetupDlg == [error |-> "", loading |-> FALSE]
ClosedUnlockDlg == [error |-> "", loading |-> FALSE, bioLoading |-> FALSE,
                    showPass |-> FALSE]
NoScenario == [stage |-> "off", uid |-> None, pass |-> ""]
\* useState<DecryptedTransaction[] | undefined>(undefined)
Undefined == [loaded |-> FALSE, rows |-> <<>>]

IdleWrite == [pc |-> "idle", shouldEncrypt |-> FALSE, key |-> NoKey,
              rows |-> <<>>]

isEnabled == settings # NoSettings
isUnlocked == cryptoKey # NoKey
UnlockDialogOpen == showUnlock /\ isEnabled
\* navigator.credentials.create / .get is pending: the browser's WebAuthn
\* sheet is modal over the page until the ceremony settles
CeremonyPending == setupCall.pc = "registering" \/ bioCall.pc = "prompt"

\* Overlay covers the whole viewport: the page behind a dialog takes no clicks
NoModal == ~showSetup /\ ~UnlockDialogOpen /\ ~CeremonyPending

Init ==
  /\ db = [u \in Users |-> NoSettings]
  /\ keyStore = [u \in Users |-> NoKey]
  /\ cred = [u \in Users |-> FALSE]
  /\ user = None
  /\ settings = NoSettings
  /\ cryptoKey = NoKey
  /\ showSetup = FALSE
  /\ showUnlock = FALSE
  /\ hasBio = FALSE
  /\ restorePending = FALSE
  /\ promptArmed = FALSE
  /\ setupCall = IdleSetup
  /\ setupDlg = ClosedSetupDlg
  /\ unlockCall = IdleUnlock
  /\ bioCall = IdleBio
  /\ unlockDlg = ClosedUnlockDlg
  /\ changeCall = IdleChange
  /\ vault = {}
  /\ inserts = [u \in Users |-> 0]
  /\ records = <<>>
  /\ write = IdleWrite
  /\ decrypted = Undefined
  /\ scenario = NoScenario
  /\ outcome = "none"
  /\ idle = 0
  /\ away = FALSE
  /\ timedOut = FALSE
  /\ passes = <<>>


\* ------------------------------------------------------ backend (Convex)
\* encryptionSettings.get: the calling identity's record, null without identity
get(table, identity) ==
  IF identity = None THEN NoSettings ELSE table[identity]

setupOverwrites(table, identity, args) ==
  IF identity = None THEN [ok |-> FALSE, table |-> table]
  ELSE [ok |-> TRUE,
        table |-> [table EXCEPT ![identity] =
                     [salt |-> args.salt,
                      verificationHash |-> args.verificationHash]]]

\* encryptionSettings.setup: throws without identity or when a record exists
setup(table, identity, args) ==
  IF identity = None THEN [ok |-> FALSE, table |-> table]
  ELSE IF table[identity] # NoSettings THEN [ok |-> FALSE, table |-> table]
  ELSE [ok |-> TRUE,
        table |-> [table EXCEPT ![identity] =
                     [salt |-> args.salt,
                      verificationHash |-> args.verificationHash]]]

\* --------------------------------------------------------- lib/keyStorage
saveKeyDropped(store, userId, key) == store

\* puts the passphrase itself, not the key stretched from it and a salt
saveKeyPassphrase(store, userId, key) ==
  [store EXCEPT ![userId] = [pass |-> key.pass, salt |-> 0]]

saveKey(store, userId, key) == [store EXCEPT ![userId] = key]

loadKeyCached(store, userId) ==
  IF store[userId] # NoKey THEN store[userId]
  ELSE deriveKey("correct-horse-battery", 1)

loadKey(store, userId) == store[userId]
clearKey(store, userId) == [store EXCEPT ![userId] = NoKey]

\* ----------------------------------------------------------- lib/webauthn
getCredentialId(c, userId) == c[userId]
setCredentialId(c, userId) == [c EXCEPT ![userId] = TRUE]
clearCredentialId(c, userId) == [c EXCEPT ![userId] = FALSE]

registerBiometricAlwaysStores(c, userId, created) ==
  [threw |-> ~created, cred |-> setCredentialId(c, userId)]

\* registerBiometric: navigator.credentials.create gave a credential, whose
\* id is stored, or gave none / rejected, and the call throws
registerBiometric(c, userId, created) ==
  IF created THEN [threw |-> FALSE, cred |-> setCredentialId(c, userId)]
  ELSE [threw |-> TRUE, cred |-> c]

\* ------------------------------------------------ provider render, effects
\* const hasBio = !!user && !!getCredentialId(user.id)
hasBioOf(u, c) == IF u = None THEN FALSE ELSE getCredentialId(c, u)

\* A render of the provider follows every change of its state, of useUser or
\* of useQuery; hasBio is a plain expression of that render (never a
\* subscription to localStorage).  The three effects re-run on a change of
\* their dependency lists; the dialogs mount and unmount with their flags.
Render(force, pRestore, pPrompt, pUnlockDlg, pBio, pSetupDlg) ==
  LET providerChanged ==
        <<user', settings', cryptoKey', showSetup', showUnlock'>>
          # <<user, settings, cryptoKey, showSetup, showUnlock>>
      openBefore == showUnlock /\ settings # NoSettings
      openAfter == showUnlock' /\ settings' # NoSettings
      mounted == openAfter /\ ~openBefore
  IN  /\ hasBio' = IF force \/ providerChanged
                     THEN hasBioOf(user', cred') ELSE hasBio
      /\ restorePending' =
           IF <<user', settings'>> # <<user, settings>>
             THEN user' # None /\ settings' # NoSettings
             ELSE pRestore
      /\ promptArmed' =
           IF <<settings', cryptoKey', user'>> # <<settings, cryptoKey, user>>
             THEN settings' # NoSettings /\ user' # None
             ELSE pPrompt
      /\ unlockDlg' =
           IF ~openAfter THEN ClosedUnlockDlg
           ELSE IF mounted
             THEN [error |-> "", loading |-> FALSE, bioLoading |-> hasBio',
                   showPass |-> ~hasBio']
           ELSE pUnlockDlg
      /\ bioCall' =
           IF mounted /\ hasBio' /\ pBio.pc = "idle"
             THEN [pc |-> "prompt", uid |-> user']
             ELSE pBio
      /\ setupDlg' = IF showSetup' /\ showSetup THEN pSetupDlg
                     ELSE ClosedSetupDlg
      /\ idle' =
           IF <<cryptoKey' # NoKey, user', hasBio'>>
                # <<cryptoKey # NoKey, user, hasBio>>
             THEN 0
             ELSE idle
      /\ away' = away
      /\ timedOut' =
           IF outcome' = "lock" /\ cryptoKey' # cryptoKey THEN TRUE
           ELSE IF user' # user THEN FALSE
           ELSE IF unlockCall.pc = "deriving" /\ unlockCall'.pc = "saving"
                   /\ unlockCall.uid = user
             THEN FALSE
           ELSE IF bioCall.pc = "prompt" /\ outcome' = "bio: true"
                   /\ bioCall.uid = user
             THEN FALSE
           ELSE timedOut

      /\ passes' = passes
Same == Render(FALSE, restorePending, promptArmed, unlockDlg, bioCall, setupDlg)

\* ------------------------------------------------------------ environment
InFlight ==
  Cardinality({c \in {<<1, setupCall.pc>>, <<2, unlockCall.pc>>,
                      <<3, bioCall.pc>>, <<4, changeCall.pc>>} :
                 c[2] # "idle"})

SaltLeft == \E s \in Salts : \A u \in Users : db[u].salt # [b64 |-> s]

Enrolled == {u \in Users : db[u] # NoSettings}

\* Accounts differ in name only until one of them enables encryption: the
\* first to do so is called "A", and another account signs in after that.
FirstAccount(u) == u \in Users => (u = "A" \/ db["A"] # NoSettings)

\* Clerk: the authenticated user changes (sign-out, sign-in, account switch).
\* useQuery is skipped without a user and re-subscribed for a new one, so the
\* view is undefined until the new identity's result arrives.  A sign-out may
\* also end in a full page load (hard).
SwitchUser(u, hard) ==
  /\ u # user
  /\ hard => u = None
  /\ FirstAccount(u)
  /\ UNCHANGED <<db, inserts, keyStore, cred, vault, records, decrypted>>
  /\ write' = IF hard THEN IdleWrite ELSE write
  /\ user' = u
  /\ settings' = NoSettings
  /\ cryptoKey' = IF hard THEN NoKey ELSE cryptoKey
  /\ showSetup' = IF hard THEN FALSE ELSE showSetup
  /\ showUnlock' = IF hard THEN FALSE ELSE showUnlock
  /\ setupCall' = IF hard THEN IdleSetup ELSE setupCall
  /\ unlockCall' = IF hard THEN IdleUnlock ELSE unlockCall
  /\ changeCall' = IF hard THEN IdleChange ELSE changeCall
  /\ scenario' = NoScenario
  /\ outcome' = IF u = None THEN "sign-out" ELSE "switch"
  /\ Render(FALSE, restorePending, promptArmed, unlockDlg,
            IF hard THEN IdleBio ELSE bioCall, setupDlg)

\* the query result for the current identity reaches the client
SettingsUpdate ==
  /\ user # None
  /\ settings # get(db, user)
  /\ UNCHANGED <<db, inserts, keyStore, cred, user, cryptoKey, showSetup, showUnlock,
                 setupCall, unlockCall, changeCall, vault, records, decrypted, write, scenario>>
  /\ settings' = get(db, user)
  /\ outcome' = "none"
  /\ Same

\* page reload: component state is rebuilt, device storage and backend stay
Reload ==
  /\ UNCHANGED <<db, inserts, keyStore, cred, user, vault, records, decrypted>>
  /\ write' = IdleWrite
  /\ settings' = NoSettings
  /\ cryptoKey' = NoKey
  /\ showSetup' = FALSE
  /\ showUnlock' = FALSE
  /\ setupCall' = IdleSetup
  /\ unlockCall' = IdleUnlock
  /\ changeCall' = IdleChange
  /\ scenario' = NoScenario
  /\ outcome' = "reload"
  /\ Render(TRUE, FALSE, FALSE, ClosedUnlockDlg, IdleBio, ClosedSetupDlg)

\* the provider renders again for a reason outside its own state
Rerender ==
  /\ hasBio # hasBioOf(user, cred)
  /\ UNCHANGED <<db, inserts, keyStore, cred, user, settings, cryptoKey, showSetup,
                 showUnlock, setupCall, unlockCall, changeCall, vault, records, decrypted, write, scenario>>
  /\ outcome' = "none"
  /\ Render(TRUE, restorePending, promptArmed, unlockDlg, bioCall, setupDlg)

\* ------------------------------------------------------------------ Setup
\* setupEncryption: () => setShowSetup(true); offered where !isEnabled
OpenSetup ==
  /\ user # None
  /\ ~isEnabled
  /\ NoModal
  /\ UNCHANGED <<db, inserts, keyStore, cred, user, settings, cryptoKey, showUnlock,
                 setupCall, unlockCall, changeCall, vault, records, decrypted, write, scenario>>
  /\ showSetup' = TRUE
  /\ outcome' = "none"
  /\ Same

\* SetupDialog onCancel: () => setShowSetup(false); never disabled
CancelSetup ==
  /\ showSetup
  /\ UNCHANGED <<db, inserts, keyStore, cred, user, settings, cryptoKey, showUnlock,
                 setupCall, unlockCall, changeCall, vault, records, decrypted, write, scenario>>
  /\ showSetup' = FALSE
  /\ outcome' = "none"
  /\ Same

\* SetupDialog.handleSubmit up to the await of onSetup, and handleSetup up to
\* the await of setupMutation: validation, generateSalt, deriveKey,
\* createVerificationHash, and the mutation as the backend executes it for the
\* caller's identity.
SetupSubmit(pass, confirm, registerBio, iv) ==
  /\ showSetup
  /\ ~setupDlg.loading
  /\ setupCall.pc = "idle"
  /\ UNCHANGED <<keyStore, cred, user, settings, cryptoKey, showSetup,
                 showUnlock, unlockCall, changeCall, vault, records, decrypted, write>>
  /\ IF Len(pass) < MIN_PASSPHRASE_LEN
       THEN /\ UNCHANGED <<db, inserts, setupCall, scenario>>
            /\ outcome' = "setup: refused"
            /\ Render(FALSE, restorePending, promptArmed, unlockDlg, bioCall,
                      [error |-> "err: passphrase must be >= 8 chars",
                       loading |-> FALSE])
     ELSE IF pass # confirm
       THEN /\ UNCHANGED <<db, inserts, setupCall, scenario>>
            /\ outcome' = "setup: refused"
            /\ Render(FALSE, restorePending, promptArmed, unlockDlg, bioCall,
                      [error |-> "err: passphrases do not match",
                       loading |-> FALSE])
     ELSE /\ InFlight < MaxInFlight
          /\ SaltLeft
          /\ (user \in Users \ Enrolled) => Cardinality(Enrolled) < MaxEnrolled
          /\ LET salt == generateSalt(db)
                 key == deriveKey(pass, salt)
                 verificationHash == createVerificationHash(key, iv)
                 res == setup(db, user, [salt |-> saltToBase64(salt),
                                         verificationHash |-> verificationHash])
             IN  /\ db' = res.table
                 /\ inserts' = IF res.ok
                                 THEN [inserts EXCEPT ![user] = @ + 1]
                                 ELSE inserts
                 /\ setupCall' = [pc |-> "mutating", uid |-> user,
                                  pass |-> pass, key |-> key,
                                  bio |-> registerBio, ok |-> res.ok]
                 /\ scenario' = IF res.ok
                                  THEN [stage |-> "starting", uid |-> user,
                                        pass |-> pass]
                                  ELSE scenario
          /\ outcome' = "none"
          /\ Render(FALSE, restorePending, promptArmed, unlockDlg, bioCall,
                    [error |-> "", loading |-> TRUE])

\* the mutation's promise settles: it resolves once the client's queries show
\* its effect, then setCryptoKey(key) and saveKey is started; a rejection is
\* caught by SetupDialog.handleSubmit
SetupMutationSettled ==
  /\ setupCall.pc = "mutating"
  /\ UNCHANGED <<db, inserts, keyStore, cred, user, showUnlock, unlockCall, changeCall,
                 vault, records, decrypted, write, scenario>>
  /\ IF setupCall.ok
       THEN /\ cryptoKey' = setupCall.key
            /\ settings' = IF user = None THEN settings ELSE get(db, user)
            /\ IF setupCall.uid # None
                 THEN /\ setupCall' = [setupCall EXCEPT !.pc = "saving"]
                      /\ showSetup' = showSetup
                      /\ outcome' = "none"
                      /\ Render(FALSE, restorePending, promptArmed, unlockDlg,
                                bioCall, setupDlg)
                 ELSE /\ setupCall' = IdleSetup
                      /\ showSetup' = FALSE
                      /\ outcome' = "setup: done"
                      /\ Render(FALSE, restorePending, promptArmed, unlockDlg,
                                bioCall, ClosedSetupDlg)
       ELSE /\ setupCall' = IdleSetup
            /\ UNCHANGED <<cryptoKey, settings, showSetup>>
            /\ outcome' = "setup: rejected"
            /\ Render(FALSE, restorePending, promptArmed, unlockDlg, bioCall,
                      [error |-> "err: failed to initialise encryption",
                       loading |-> FALSE])

\* await saveKey(user.id, key) settles; IndexedDB may refuse the write
SetupSaved(stored) ==
  /\ setupCall.pc = "saving"
  /\ UNCHANGED <<db, inserts, cred, user, settings, cryptoKey, showUnlock, unlockCall,
                 changeCall, vault, records, decrypted, write>>
  /\ IF ~stored
       THEN /\ setupCall' = IdleSetup
            /\ scenario' = IF scenario.stage = "starting"
                             THEN NoScenario ELSE scenario
            /\ UNCHANGED <<keyStore, showSetup>>
            /\ outcome' = "setup: rejected"
            /\ Render(FALSE, restorePending, promptArmed, unlockDlg, bioCall,
                      [error |-> "err: failed to initialise encryption",
                       loading |-> FALSE])
     ELSE /\ keyStore' = saveKey(keyStore, setupCall.uid, setupCall.key)
          /\ IF setupCall.bio
               THEN /\ setupCall' = [setupCall EXCEPT !.pc = "registering"]
                    /\ UNCHANGED <<showSetup, scenario>>
                    /\ outcome' = "none"
                    /\ Same
               ELSE /\ setupCall' = IdleSetup
                    /\ showSetup' = FALSE
                    /\ scenario' = IF scenario.stage = "starting"
                                     THEN [scenario EXCEPT !.stage = "setup"]
                                     ELSE scenario
                    /\ outcome' = "setup: done"
                    /\ Render(FALSE, restorePending, promptArmed, unlockDlg,
                              bioCall, ClosedSetupDlg)

\* registerBiometric settles: the credential id is stored on success, a
\* failure is swallowed; then setShowSetup(false)
SetupBioSettled(registered) ==
  /\ setupCall.pc = "registering"
  /\ UNCHANGED <<db, inserts, keyStore, user, settings, cryptoKey, showUnlock,
                 unlockCall, changeCall, vault, records, decrypted, write>>
  /\ cred' = registerBiometric(cred, setupCall.uid, registered).cred
  /\ setupCall' = IdleSetup
  /\ showSetup' = FALSE
  /\ scenario' = IF scenario.stage = "starting"
                   THEN [scenario EXCEPT !.stage = "setup"] ELSE scenario
  /\ outcome' = IF registerBiometric(cred, setupCall.uid, registered).threw
                  THEN "setup: done, biometric skipped"
                  ELSE "setup: done"
  /\ Render(FALSE, restorePending, promptArmed, unlockDlg, bioCall,
            ClosedSetupDlg)

\* ---------------------------------------------------------------- effects
\* restore effect: loadKey(user.id).then(key => ...) of a run not cancelled
RestoreSettled ==
  /\ restorePending
  /\ UNCHANGED <<db, inserts, keyStore, cred, user, settings, showSetup, setupCall,
                 unlockCall, changeCall, vault, records, decrypted, write>>
  /\ LET key == loadKey(keyStore, user)
     IN  IF key # NoKey
           THEN /\ cryptoKey' = key
                /\ showUnlock' = FALSE
                /\ scenario' = IF cryptoKey # key THEN NoScenario ELSE scenario
                /\ outcome' = "restore: key"
           ELSE /\ UNCHANGED <<cryptoKey, showUnlock, scenario>>
                /\ outcome' = "none"
  /\ Render(FALSE, FALSE, promptArmed, unlockDlg, bioCall, setupDlg)

\* show-unlock effect: the 350 ms timeout fires
PromptTimeout ==
  /\ promptArmed
  /\ UNCHANGED <<db, inserts, keyStore, cred, user, settings, cryptoKey, showSetup,
                 setupCall, unlockCall, changeCall, vault, records, decrypted, write, scenario>>
  /\ showUnlock' = IF cryptoKey = NoKey THEN TRUE ELSE showUnlock
  /\ outcome' = "none"
  /\ Render(FALSE, restorePending, FALSE, unlockDlg, bioCall, setupDlg)

\* The inactivity timer is armed by the render that follows setCryptoKey(key)
\* and runs INACTIVITY_MS (5 min); a handler that installed the key is still
\* awaiting saveKey or a WebAuthn prompt (timeout 60 s) for less than that.
TimerCanExpire ==
  /\ setupCall.pc \notin {"saving", "registering"}
  /\ unlockCall.pc # "saving"

TimerArmedAlways == TRUE

\* the effect has set the timeout: if (!isUnlocked || !user?.id) return
TimerArmed == isUnlocked /\ user # None

\* time passes on a pending timeout
Tick ==
  /\ TimerArmed
  /\ idle < InactivityTicks
  /\ idle' = idle + 1
  /\ outcome' = "none"
  /\ UNCHANGED <<session, away>>

\* one of ACTIVITY_EVENTS reaches the window: reset() while the listeners
\* are installed, nobody listening otherwise
Activity ==
  /\ TimerArmed
  /\ idle # 0
  /\ idle' = 0
  /\ outcome' = "none"
  /\ UNCHANGED <<session, away>>

\* the hasBio that lock() reads: the one of the render the effect last ran in
lockHasBioFresh == hasBioOf(user, cred)

lockHasBio == hasBio

\* lock(): setCryptoKey(null); if (!hasBio) await clearKey(user.id);
\* setShowUnlock(true)
InactivityLock ==
  /\ TimerArmed
  /\ idle = InactivityTicks
  /\ TimerCanExpire
  /\ UNCHANGED <<db, inserts, cred, user, settings, showSetup, setupCall, unlockCall,
                 changeCall, vault, records, decrypted, write>>
  /\ cryptoKey' = NoKey
  /\ keyStore' = IF ~lockHasBio THEN clearKey(keyStore, user) ELSE keyStore
  /\ showUnlock' = TRUE
  /\ scenario' = IF scenario.stage \in {"setup", "unlocked"}
                   THEN [scenario EXCEPT !.stage = "locked"] ELSE NoScenario
  /\ outcome' = "lock"
  /\ Same

\* ----------------------------------------------------------- UnlockDialog
PassphraseFormShown == UnlockDialogOpen /\ (~hasBio \/ unlockDlg.showPass)

\* UnlockDialog.handleSubmit up to the await of onUnlock, and handleUnlock up
\* to the end of deriveKey / verifyPassphrase (no state is touched between)
UnlockSubmit(pass) ==
  /\ PassphraseFormShown
  /\ ~unlockDlg.loading
  /\ pass # ""
  /\ unlockCall.pc = "idle"
  /\ InFlight < MaxInFlight
  /\ UNCHANGED <<db, inserts, keyStore, cred, user, settings, cryptoKey, showSetup,
                 showUnlock, setupCall, changeCall, vault, records, decrypted, write, scenario>>
  /\ IF settings = NoSettings \/ user = None
       THEN /\ unlockCall' = IdleUnlock
            /\ outcome' = "unlock: false"
            /\ Render(FALSE, restorePending, promptArmed,
                      [unlockDlg EXCEPT !.error = "err: incorrect passphrase"],
                      bioCall, setupDlg)
       ELSE LET salt == base64ToSalt(settings.salt)
                key == deriveKey(pass, salt)
                valid == verifyPassphrase(key, settings.verificationHash)
            IN  /\ unlockCall' = [pc |-> "deriving", uid |-> user,
                                  pass |-> pass, key |-> key, valid |-> valid]
                /\ outcome' = "none"
                /\ Render(FALSE, restorePending, promptArmed,
                          [unlockDlg EXCEPT !.error = "", !.loading = TRUE],
                          bioCall, setupDlg)

\* deriveKey and verifyPassphrase have settled
UnlockDerived ==
  /\ unlockCall.pc = "deriving"
  /\ UNCHANGED <<db, inserts, keyStore, cred, user, settings, showSetup, showUnlock,
                 setupCall, changeCall, vault, records, decrypted, write>>
  /\ scenario' =
       IF scenario.stage = "locked" /\ scenario.uid = unlockCall.uid
          /\ scenario.pass = unlockCall.pass
         THEN [scenario EXCEPT !.stage = "unlocked"]
       ELSE IF unlockCall.valid /\ cryptoKey # unlockCall.key THEN NoScenario
       ELSE scenario
  /\ IF unlockCall.valid
       THEN /\ cryptoKey' = unlockCall.key
            /\ unlockCall' = [unlockCall EXCEPT !.pc = "saving"]
            /\ outcome' = "none"
            /\ Same
       ELSE /\ cryptoKey' = cryptoKey
            /\ unlockCall' = IdleUnlock
            /\ outcome' = "unlock: false"
            /\ Render(FALSE, restorePending, promptArmed,
                      [unlockDlg EXCEPT !.error = "err: incorrect passphrase",
                                        !.loading = FALSE],
                      bioCall, setupDlg)

\* await saveKey(user.id, key) settles; IndexedDB may refuse the write
UnlockSaved(stored) ==
  /\ unlockCall.pc = "saving"
  /\ UNCHANGED <<db, inserts, cred, user, settings, cryptoKey, showSetup, setupCall,
                 changeCall, vault, records, decrypted, write, scenario>>
  /\ IF stored
       THEN /\ keyStore' = saveKey(keyStore, unlockCall.uid, unlockCall.key)
            /\ showUnlock' = FALSE
            /\ unlockCall' = IdleUnlock
            /\ outcome' = "unlock: true"
            /\ Render(FALSE, restorePending, promptArmed,
                      [unlockDlg EXCEPT !.loading = FALSE], bioCall, setupDlg)
       ELSE /\ UNCHANGED <<keyStore, showUnlock>>
            /\ unlockCall' = IdleUnlock
            /\ outcome' = "unlock: threw"
            /\ Render(FALSE, restorePending, promptArmed,
                      [unlockDlg EXCEPT !.error = "err: decryption failed",
                                        !.loading = FALSE],
                      bioCall, setupDlg)

\* onSkip: () => setShowUnlock(false); the button sits in the passphrase form
Skip ==
  /\ PassphraseFormShown
  /\ UNCHANGED <<db, inserts, keyStore, cred, user, settings, cryptoKey, showSetup,
                 setupCall, unlockCall, changeCall, vault, records, decrypted, write, scenario>>
  /\ showUnlock' = FALSE
  /\ outcome' = "skip"
  /\ Same

\* what navigator.credentials.get can answer
AuthenticatorAnswers == {"assertion", "cancelled", "timeout", "no authenticator"}

verifyBiometricNoCatch(stored, answer) ==
  [prompted |-> stored,
   result |-> stored /\ answer = "assertion",
   threw |-> stored /\ answer # "assertion"]

\* verifyBiometric, given whether a credential id is stored: without one it
\* returns false at once; with one it prompts, returns true on an assertion
\* and false when the prompt rejects (the catch)
verifyBiometric(stored, answer) ==
  [prompted |-> stored,
   result |-> stored /\ answer = "assertion",
   threw |-> FALSE]

\* a click on the biometric button: handleBiometric, handleBiometricUnlock and
\* verifyBiometric up to the authenticator prompt
BiometricClick ==
  /\ UnlockDialogOpen
  /\ hasBio
  /\ ~unlockDlg.bioLoading
  /\ bioCall.pc = "idle"
  /\ InFlight < MaxInFlight
  /\ UNCHANGED <<db, inserts, keyStore, cred, user, settings, cryptoKey, showSetup,
                 showUnlock, setupCall, unlockCall, changeCall, vault, records, decrypted, write, scenario>>
  /\ IF user = None
          \/ ~verifyBiometric(getCredentialId(cred, user), "assertion").prompted
       THEN /\ outcome' = "bio: false"
            /\ Render(FALSE, restorePending, promptArmed,
                      [unlockDlg EXCEPT
                         !.error = "err: biometric failed - use passphrase below",
                         !.showPass = TRUE, !.bioLoading = FALSE],
                      IdleBio, setupDlg)
       ELSE /\ outcome' = "none"
            /\ Render(FALSE, restorePending, promptArmed,
                      [unlockDlg EXCEPT !.error = "", !.bioLoading = TRUE],
                      [pc |-> "prompt", uid |-> user], setupDlg)

\* navigator.credentials.get settles (assertion, or cancel / timeout / none),
\* then loadKey(user.id) and the rest of handleBiometricUnlock
BiometricSettled(answer) ==
  /\ bioCall.pc = "prompt"
  /\ UNCHANGED <<db, inserts, keyStore, cred, user, settings, showSetup, setupCall,
                 unlockCall, changeCall, vault, records, decrypted, write>>
  /\ LET verified == verifyBiometric(TRUE, answer)
         ok == verified.result
         key == loadKey(keyStore, bioCall.uid)
     IN  IF verified.threw
           THEN /\ UNCHANGED <<cryptoKey, showUnlock, scenario>>
                /\ outcome' = "bio: threw"
                /\ Render(FALSE, restorePending, promptArmed,
                          [unlockDlg EXCEPT
                             !.error = "err: biometric unavailable",
                             !.showPass = TRUE, !.bioLoading = FALSE],
                          IdleBio, setupDlg)
         ELSE IF ok /\ key # NoKey
           THEN /\ cryptoKey' = key
                /\ showUnlock' = FALSE
                /\ scenario' = IF cryptoKey # key THEN NoScenario ELSE scenario
                /\ outcome' = "bio: true"
                /\ Render(FALSE, restorePending, promptArmed,
                          [unlockDlg EXCEPT !.showPass = TRUE,
                                            !.bioLoading = FALSE],
                          IdleBio, setupDlg)
           ELSE /\ UNCHANGED <<cryptoKey, showUnlock, scenario>>
                /\ outcome' = IF ok THEN "bio: no key" ELSE "bio: false"
                /\ Render(FALSE, restorePending, promptArmed,
                          [unlockDlg EXCEPT
                             !.error = "err: biometric failed - use passphrase below",
                             !.showPass = TRUE, !.bioLoading = FALSE],
                          IdleBio, setupDlg)

\* "remove biometric registration": handleLockBiometric
RemoveBiometric ==
  /\ UnlockDialogOpen
  /\ hasBio
  /\ unlockDlg.showPass
  /\ user # None
  /\ getCredentialId(cred, user)
  /\ UNCHANGED <<db, inserts, keyStore, user, settings, cryptoKey, showSetup, showUnlock,
                 setupCall, unlockCall, changeCall, vault, records, decrypted, write, scenario>>
  /\ cred' = clearCredentialId(cred, user)
  /\ outcome' = "none"
  /\ Same

\* ---------------------------------------------------------- Settings page
\* handleEnableBio: registerBiometric settles, the credential id is stored on
\* success and a failure is swallowed (only Settings' own state is set)
EnableBio(registered) ==
  /\ user # None
  /\ isEnabled
  /\ NoModal
  /\ ~getCredentialId(cred, user)
  /\ UNCHANGED <<db, inserts, keyStore, user, settings, cryptoKey, showSetup, showUnlock,
                 setupCall, unlockCall, changeCall, vault, records, decrypted, write, scenario>>
  /\ cred' = registerBiometric(cred, user, registered).cred
  /\ outcome' = "none"
  /\ Same

\* handleDisableBio
DisableBio ==
  /\ user # None
  /\ isEnabled
  /\ NoModal
  /\ getCredentialId(cred, user)
  /\ UNCHANGED <<db, inserts, keyStore, user, settings, cryptoKey, showSetup, showUnlock,
                 setupCall, unlockCall, changeCall, vault, records, decrypted, write, scenario>>
  /\ cred' = clearCredentialId(cred, user)
  /\ outcome' = "none"
  /\ Same

\* "clear local key": handleDisableEncryption
handleDisableEncryption ==
  /\ user # None
  /\ isEnabled
  /\ NoModal
  /\ UNCHANGED <<db, inserts, user, settings, cryptoKey, showSetup, showUnlock,
                 setupCall, unlockCall, changeCall, vault, records, decrypted, write, scenario>>
  /\ keyStore' = clearKey(keyStore, user)
  /\ cred' = clearCredentialId(cred, user)
  /\ outcome' = "clear local key"
  /\ Same

\* ChangePassphraseModal.handleSubmit up to the await of setupMutation:
\* validation, verification of the current passphrase, derivation of the new
\* key, and the setup mutation as the backend executes it
ChangeSubmit(current, next, confirm, iv) ==
  /\ user # None
  /\ isEnabled
  /\ isUnlocked
  /\ NoModal
  /\ changeCall.pc = "idle"
  /\ UNCHANGED <<keyStore, cred, user, settings, cryptoKey, showSetup,
                 showUnlock, setupCall, unlockCall, vault, records, decrypted, write, scenario>>
  /\ IF Len(next) < MIN_PASSPHRASE_LEN \/ next # confirm
       THEN /\ UNCHANGED <<db, inserts, changeCall>>
            /\ outcome' = "change: refused"
     ELSE /\ InFlight < MaxInFlight
          /\ SaltLeft
          /\ LET oldSalt == base64ToSalt(settings.salt)
                 oldKey == deriveKey(current, oldSalt)
                 valid == verifyPassphrase(oldKey, settings.verificationHash)
                 newSalt == generateSalt(db)
                 newKey == deriveKey(next, newSalt)
                 hash == createVerificationHash(newKey, iv)
                 res == setup(db, user, [salt |-> saltToBase64(newSalt),
                                         verificationHash |-> hash])
             IN  IF ~valid
                   THEN /\ UNCHANGED <<db, inserts, changeCall>>
                        /\ outcome' = "change: current incorrect"
                   ELSE /\ changeCall' =
                             [pc |-> "mutating", uid |-> user, next |-> next,
                              key |-> newKey, ok |-> res.ok]
                        /\ db' = res.table
                        /\ inserts' = IF res.ok
                                        THEN [inserts EXCEPT ![user] = @ + 1]
                                        ELSE inserts
                        /\ outcome' = "none"
  /\ Same

\* the mutation's promise settles: saveKey and onClose, or the catch branch
ChangeSettled ==
  /\ changeCall.pc = "mutating"
  /\ UNCHANGED <<db, inserts, cred, user, cryptoKey, showSetup, showUnlock, setupCall,
                 unlockCall, vault, records, decrypted, write, scenario>>
  /\ IF changeCall.ok
       THEN /\ keyStore' = saveKey(keyStore, changeCall.uid, changeCall.key)
            /\ settings' = IF user = None THEN settings ELSE get(db, user)
            /\ outcome' = "change: done"
       ELSE /\ UNCHANGED <<keyStore, settings>>
            /\ outcome' = "change: failed"
  /\ changeCall' = [IdleChange EXCEPT !.uid = changeCall.uid,
                                      !.next = changeCall.next]
  /\ Same

\* ------------------------------------------------- encryptValue / decryptValue
encryptValueNoCheck(plaintext, iv) == encrypt(plaintext, cryptoKey, iv)

encryptValue(plaintext, iv) ==
  IF cryptoKey = NoKey THEN Plain(plaintext)
  ELSE encrypt(plaintext, cryptoKey, iv)

\* what a caller gets when the promise rejects instead of resolving
Thrown == [kind |-> "thrown", pt |-> "", key |-> NoKey, iv |-> 0]

decryptValueNoCatch(ciphertext) ==
  IF cryptoKey = NoKey THEN ciphertext
  ELSE LET r == decrypt(ciphertext, cryptoKey)
       IN  IF r.ok THEN Plain(r.val) ELSE Thrown

decryptValue(ciphertext) ==
  IF cryptoKey = NoKey THEN ciphertext
  ELSE LET r == decrypt(ciphertext, cryptoKey)
       IN  IF r.ok THEN Plain(r.val) ELSE ciphertext

\* a consumer calls the context's encryptValue (as AddTransaction and the CSV
\* import do for each field); the result is what the backend keeps and later
\* hands back for decryption
EncryptField(plaintext, iv) ==
  /\ user # None
  /\ NoModal
  /\ Cardinality(vault) < MaxVault
  /\ UNCHANGED <<db, inserts, keyStore, cred, user, settings, cryptoKey,
                 showSetup, showUnlock, setupCall, unlockCall, changeCall,
                 scenario, records, decrypted, write>>
  /\ vault' = vault \cup
       {[pt |-> plaintext, out |-> encryptValue(plaintext, iv),
         key |-> cryptoKey, uid |-> user,
         scen |-> IF scenario.uid = user
                     /\ scenario.stage \in {"setup", "unlocked"}
                   THEN scenario.stage ELSE "off"]}
  /\ outcome' = "none"
  /\ Same

\* ------------------------------------------------------------ transactions
\* a JavaScript number, as opposed to a string
Num(s) == [kind |-> "num", pt |-> s, key |-> NoKey, iv |-> 0]

\* String(n) of a number
String(n) == n.pt

\* parseFloat(s) || 0: the number a numeric string denotes, 0 for NaN
parseFloatOr0(s) ==
  IF s.kind = "plain" /\ s.pt \in Amounts THEN Num(s.pt) ELSE Num("0")

\* the context's encryptValue as a closure over the key of the provider
\* render that created it
encryptValueOf(key, plaintext, iv) ==
  IF key = NoKey THEN Plain(plaintext) ELSE encrypt(plaintext, key, iv)

\* transactions.get: the caller's rows, none without an identity
transactionsGet(table, identity) ==
  IF identity = None THEN <<>>
  ELSE SelectSeq(table, LAMBDA t : t.userId = identity)

\* createMany throws before any insert: Unauthorized without an identity,
\* "Maximum 100 transactions per batch" for a longer list
createManyThrows(identity, transactions) ==
  identity = None \/ Len(transactions) > MAX_BATCH

\* transactions.create / createMany: unless it throws, inserts every row, in
\* order, under the caller's identity
createMany(table, identity, transactions) ==
  IF createManyThrows(identity, transactions) THEN table
  ELSE table \o [i \in 1..Len(transactions) |->
                   [userId |-> identity,
                    amount |-> transactions[i].amount,
                    description |-> transactions[i].description,
                    encrypted |-> transactions[i].encrypted]]

shouldEncryptEnabledOnly == isEnabled

\* const shouldEncrypt = isEnabled && isUnlocked
shouldEncrypt == isEnabled /\ isUnlocked

\* AddTransaction.onSubmit, one row from the form: the handler starts with
\* the context value of the component's last render, so shouldEncrypt and
\* the encryptValue closure come from the same provider render
onSubmit(amount, description) ==
  /\ user # None
  /\ NoModal
  /\ write.pc = "idle"
  /\ Len(records) + 1 <= MaxRecords
  /\ write' = [pc |-> "encrypting", shouldEncrypt |-> shouldEncrypt,
               key |-> cryptoKey,
               rows |-> <<[amount |-> amount, description |-> description]>>]
  /\ UNCHANGED <<db, inserts, keyStore, cred, user, settings, cryptoKey,
                 showSetup, showUnlock, setupCall, unlockCall, changeCall,
                 vault, records, decrypted, scenario>>
  /\ outcome' = "none"
  /\ Same

\* CSVImport.handleImport, the valid rows of the parsed file: the same
\* decision and the same closure for every row, sent as one batch
handleImport(rows) ==
  /\ user # None
  /\ NoModal
  /\ write.pc = "idle"
  /\ Len(records) + Len(rows) <= MaxRecords
  /\ write' = [pc |-> "encrypting", shouldEncrypt |-> shouldEncrypt,
               key |-> cryptoKey, rows |-> rows]
  /\ UNCHANGED <<db, inserts, keyStore, cred, user, settings, cryptoKey,
                 showSetup, showUnlock, setupCall, unlockCall, changeCall,
                 vault, records, decrypted, scenario>>
  /\ outcome' = "none"
  /\ Same

\* the encryptValue promises have resolved and the mutation runs on the
\* backend under the identity the client has by then
WriteSettled(iv) ==
  /\ write.pc = "encrypting"
  /\ LET transactions ==
           [i \in 1..Len(write.rows) |->
              [amount |-> IF write.shouldEncrypt
                            THEN encryptValueOf(write.key,
                                                String(Num(write.rows[i].amount)),
                                                iv)
                            ELSE Num(write.rows[i].amount),
               description |-> IF write.shouldEncrypt
                                 THEN encryptValueOf(write.key,
                                                     write.rows[i].description,
                                                     iv)
                                 ELSE Plain(write.rows[i].description),
               encrypted |-> write.shouldEncrypt]]
     IN  records' = createMany(records, user, transactions)
  /\ write' = IdleWrite
  /\ UNCHANGED <<db, inserts, keyStore, cred, user, settings, cryptoKey,
                 showSetup, showUnlock, setupCall, unlockCall, changeCall,
                 vault, decrypted, scenario>>
  /\ outcome' = IF user = None THEN "write: unauthorized"
                ELSE IF write.key # cryptoKey
                  THEN "write: stored, session changed"
                ELSE "write: stored"
  /\ Same

coerceAmountZero(amount) == Num("0")

\* typeof t.amount === "number" ? t.amount : 0
coerceAmount(amount) == IF amount.kind = "num" THEN amount ELSE Num("0")

\* useDecryptedTransactions: what the hook yields for one raw row once its
\* effect has run in the current provider state
decryptedRow(t) ==
  IF ~isEnabled \/ ~isUnlocked
    THEN [t EXCEPT !.amount = coerceAmount(t.amount)]
  ELSE IF t.encrypted
    THEN [t EXCEPT !.description = decryptValue(t.description),
                   !.amount = parseFloatOr0(IF t.amount.kind # "num"
                                              THEN decryptValue(t.amount)
                                              ELSE Plain(String(t.amount)))]
  ELSE [t EXCEPT !.amount = coerceAmount(t.amount)]

rawTransactions == transactionsGet(records, user)

useDecryptedTransactions ==
  [i \in 1..Len(rawTransactions) |-> decryptedRow(rawTransactions[i])]

\* -------------------------------------------------------------------- Next
Next ==
  \/ Tick
  \/ Activity
  \/ \E u \in Users \cup {None}, hard \in BOOLEAN : SwitchUser(u, hard)
  \/ SettingsUpdate
  \/ Reload
  \/ Rerender
  \/ OpenSetup
  \/ CancelSetup
  \/ \E pass \in Chosen, confirm \in Typed, registerBio \in BOOLEAN,
        iv \in IVs :
       SetupSubmit(pass, confirm, registerBio, iv)
  \/ SetupMutationSettled
  \/ \E stored \in BOOLEAN : SetupSaved(stored)
  \/ \E registered \in BOOLEAN : SetupBioSettled(registered)
  \/ RestoreSettled
  \/ PromptTimeout
  \/ InactivityLock
  \/ \E pass \in Typed : UnlockSubmit(pass)
  \/ UnlockDerived
  \/ \E stored \in BOOLEAN : UnlockSaved(stored)
  \/ Skip
  \/ BiometricClick
  \/ \E answer \in AuthenticatorAnswers : BiometricSettled(answer)
  \/ RemoveBiometric
  \/ \E registered \in BOOLEAN : EnableBio(registered)
  \/ DisableBio
  \/ handleDisableEncryption
  \/ \E current \in Typed, next \in Passphrases, confirm \in Typed,
        iv \in IVs :
       ChangeSubmit(current, next, confirm, iv)
  \/ ChangeSettled

Spec == Init /\ [][Next]_vars

\* what the browser and the backend do without the user: the query answers,
\* timeouts fire, time passes, promises settle (a WebAuthn ceremony times out
\* after 60 s)
SystemStep ==
  \/ Tick
  \/ SettingsUpdate
  \/ Rerender
  \/ SetupMutationSettled
  \/ \E stored \in BOOLEAN : SetupSaved(stored)
  \/ \E registered \in BOOLEAN : SetupBioSettled(registered)
  \/ RestoreSettled
  \/ PromptTimeout
  \/ InactivityLock
  \/ UnlockDerived
  \/ \E stored \in BOOLEAN : UnlockSaved(stored)
  \/ \E answer \in AuthenticatorAnswers \ {"assertion"} :
       BiometricSettled(answer)
  \/ ChangeSettled

Settling ==
  /\ WF_vars(SettingsUpdate)
  /\ WF_vars(RestoreSettled)
  /\ WF_vars(PromptTimeout)
  /\ WF_vars(SetupMutationSettled)
  /\ WF_vars(\E stored \in BOOLEAN : SetupSaved(stored))
  /\ WF_vars(\E registered \in BOOLEAN : SetupBioSettled(registered))
  /\ WF_vars(UnlockDerived)
  /\ WF_vars(\E stored \in BOOLEAN : UnlockSaved(stored))
  /\ WF_vars(\E answer \in AuthenticatorAnswers : BiometricSettled(answer))
  /\ WF_vars(ChangeSettled)

Clock ==
  /\ WF_vars(Tick)
  /\ WF_vars(InactivityLock)

\* the user leaves the device
Leave ==
  /\ ~away
  /\ away' = TRUE
  /\ outcome' = "none"
  /\ UNCHANGED <<session, idle>>

\* the session as before, until the user leaves; from then on only what
\* happens by itself
NextIdle ==
  \/ Leave
  \/ ~away /\ Next
  \/ away /\ SystemStep

SpecIdle == Init /\ [][NextIdle]_vars

SpecIdleFair == SpecIdle /\ Settling /\ Clock

\* the session together with consumers that encrypt record fields
NextVault ==
  \/ Next
  \/ \E plaintext \in Plaintexts, iv \in IVs : EncryptField(plaintext, iv)

SpecVault == Init /\ [][NextVault]_vars

\* the session together with the forms that write transactions
NextLedger ==
  \/ Next
  \/ \E r \in FormRows : onSubmit(r.amount, r.description)
  \/ \E rows \in ImportRows : handleImport(rows)
  \/ \E iv \in IVs : WriteSettled(iv)

SpecLedger == Init /\ [][NextLedger]_vars

\* ------------------------------------------- one page life of one account
\* the key and the settings of an account that set up encryption earlier
EarlierKey == deriveKey("correct-horse-battery", 1)
EarlierSettings ==
  [salt |-> saltToBase64(1),
   verificationHash |-> createVerificationHash(EarlierKey, 1)]

\* the provider has just mounted for a signed-in user (first load or reload):
\* component state is initial, the query has not answered yet; the backend
\* may hold the account's settings, and then this browser's key store may
\* hold its key and localStorage its credential id
InitPage ==
  /\ \E enrolled \in BOOLEAN, stored \in BOOLEAN, registered \in BOOLEAN :
       /\ stored \/ registered => enrolled
       /\ db = [u \in Users |->
                  IF u = "A" /\ enrolled THEN EarlierSettings ELSE NoSettings]
       /\ inserts = [u \in Users |-> IF u = "A" /\ enrolled THEN 1 ELSE 0]
       /\ keyStore = [u \in Users |->
                        IF u = "A" /\ stored THEN EarlierKey ELSE NoKey]
       /\ cred = [u \in Users |-> u = "A" /\ registered]
       /\ hasBio = registered
  /\ user = "A"
  /\ settings = NoSettings
  /\ cryptoKey = NoKey
  /\ showSetup = FALSE
  /\ showUnlock = FALSE
  /\ restorePending = FALSE
  /\ promptArmed = FALSE
  /\ setupCall = IdleSetup
  /\ setupDlg = ClosedSetupDlg
  /\ unlockCall = IdleUnlock
  /\ bioCall = IdleBio
  /\ unlockDlg = ClosedUnlockDlg
  /\ changeCall = IdleChange
  /\ vault = {}
  /\ records = <<>>
  /\ write = IdleWrite
  /\ decrypted = Undefined
  /\ scenario = NoScenario
  /\ outcome = "reload"
  /\ idle = 0
  /\ away = FALSE
  /\ timedOut = FALSE
  /\ passes = <<>>

\* what can happen until the page is left: no reload, no change of user
NextPage ==
  \/ Tick
  \/ Activity
  \/ SettingsUpdate
  \/ Rerender
  \/ OpenSetup
  \/ CancelSetup
  \/ \E pass \in Chosen, confirm \in Typed, registerBio \in BOOLEAN,
        iv \in IVs :
       SetupSubmit(pass, confirm, registerBio, iv)
  \/ SetupMutationSettled
  \/ \E stored \in BOOLEAN : SetupSaved(stored)
  \/ \E registered \in BOOLEAN : SetupBioSettled(registered)
  \/ RestoreSettled
  \/ PromptTimeout
  \/ InactivityLock
  \/ \E pass \in Typed : UnlockSubmit(pass)
  \/ UnlockDerived
  \/ \E stored \in BOOLEAN : UnlockSaved(stored)
  \/ Skip
  \/ BiometricClick
  \/ \E answer \in AuthenticatorAnswers : BiometricSettled(answer)
  \/ RemoveBiometric
  \/ \E registered \in BOOLEAN : EnableBio(registered)
  \/ DisableBio
  \/ handleDisableEncryption
  \/ \E current \in Typed, next \in Passphrases, confirm \in Typed,
        iv \in IVs :
       ChangeSubmit(current, next, confirm, iv)
  \/ ChangeSettled

SpecPage == InitPage /\ [][NextPage]_vars

\* the query answers, a pending loadKey settles and a pending 350 ms timeout
\* fires, each without anybody's help
Scheduling ==
  /\ WF_vars(SettingsUpdate)
  /\ WF_vars(RestoreSettled)
  /\ WF_vars(PromptTimeout)

SpecPageFair == SpecPage /\ Scheduling

\* ------------------------------------------------ the hook on a given corpus
\* keys under which the rows of the corpus were encrypted
CorpusKeys == {deriveKey(p, 1) : p \in Typed}

\* rows as the forms write them: unflagged with a number and a plain string,
\* or flagged with both fields encrypted under one key
CorpusRows ==
  {[userId |-> u, amount |-> Num(a), description |-> Plain(d),
    encrypted |-> FALSE] : u \in Users, a \in Amounts, d \in Descriptions}
  \cup
  {[userId |-> u, amount |-> encrypt(a, k, iv),
    description |-> encrypt(d, k, iv), encrypted |-> TRUE]
     : u \in Users, a \in Amounts, d \in Descriptions, k \in CorpusKeys,
       iv \in IVs}

Corpora == UNION {[1..n -> CorpusRows] : n \in 0..MaxCorpus}

\* a mounted hook in any lock state over any corpus: no settings, settings
\* without a key, and a key (that of the rows or another one)
InitHook ==
  /\ db = [u \in Users |-> NoSettings]
  /\ keyStore = [u \in Users |-> NoKey]
  /\ cred = [u \in Users |-> FALSE]
  /\ user \in Users
  /\ settings \in {NoSettings} \cup
                  {[salt |-> saltToBase64(k.salt),
                    verificationHash |-> createVerificationHash(k, 1)]
                     : k \in CorpusKeys}
  /\ cryptoKey \in {NoKey} \cup CorpusKeys
  /\ showSetup = FALSE
  /\ showUnlock = FALSE
  /\ hasBio = FALSE
  /\ restorePending = FALSE
  /\ promptArmed = FALSE
  /\ setupCall = IdleSetup
  /\ setupDlg = ClosedSetupDlg
  /\ unlockCall = IdleUnlock
  /\ bioCall = IdleBio
  /\ unlockDlg = ClosedUnlockDlg
  /\ changeCall = IdleChange
  /\ vault = {}
  /\ inserts = [u \in Users |-> 0]
  /\ records \in Corpora
  /\ write = IdleWrite
  /\ decrypted = Undefined
  /\ scenario = NoScenario
  /\ outcome = "none"
  /\ idle = 0
  /\ away = FALSE
  /\ timedOut = FALSE
  /\ passes = <<>>

\* the hook's effect runs to completion in the current provider state and
\* sets the hook's state
useDecryptedTransactionsEffect ==
  /\ decrypted' = [loaded |-> TRUE, rows |-> useDecryptedTransactions]
  /\ decrypted' # decrypted
  /\ UNCHANGED <<db, keyStore, cred, user, settings, cryptoKey, showSetup,
                 showUnlock, hasBio, restorePending, promptArmed, setupCall,
                 setupDlg, unlockCall, bioCall, unlockDlg, changeCall, vault,
                 inserts, records, write, scenario, outcome, idle, away, timedOut, passes>>

NextHook == useDecryptedTransactionsEffect

SpecHook == InitHook /\ [][NextHook]_vars


\* ------------------------------------------------- CSVImport: the batches
\* Array.prototype.slice(start, end) for 0 <= start <= end
sliceToEnd(a, start, end) == SubSeq(a, start + 1, Len(a))

slice(a, start, end) ==
  SubSeq(a, start + 1, IF end < Len(a) THEN end ELSE Len(a))

\* the n valid rows of a parsed file, told apart by their amounts; the
\* session has no encryption, so the rows go out as they are
ParsedRows(n) ==
  [k \in 1..n |->
     [amount |-> Num(k), description |-> Plain("coffee"), encrypted |-> FALSE]]

\* handleImport has built `transactions` and enters its loop with i = 0, for
\* a signed-in user or one whose session has ended meanwhile
InitImport ==
  /\ db = [u \in Users |-> NoSettings]
  /\ keyStore = [u \in Users |-> NoKey]
  /\ cred = [u \in Users |-> FALSE]
  /\ user \in Users \cup {None}
  /\ settings = NoSettings
  /\ cryptoKey = NoKey
  /\ showSetup = FALSE
  /\ showUnlock = FALSE
  /\ hasBio = FALSE
  /\ restorePending = FALSE
  /\ promptArmed = FALSE
  /\ setupCall = IdleSetup
  /\ setupDlg = ClosedSetupDlg
  /\ unlockCall = IdleUnlock
  /\ bioCall = IdleBio
  /\ unlockDlg = ClosedUnlockDlg
  /\ changeCall = IdleChange
  /\ vault = {}
  /\ inserts = [u \in Users |-> 0]
  /\ records = <<>>
  /\ \E n \in 0..MaxImport :
       write = [pc |-> "sending", shouldEncrypt |-> FALSE, key |-> NoKey,
                rows |-> ParsedRows(n), i |-> 0]
  /\ decrypted = Undefined
  /\ scenario = NoScenario
  /\ outcome = "none"
  /\ idle = 0
  /\ away = FALSE
  /\ timedOut = FALSE
  /\ passes = <<>>

\* one turn of the loop: const batch = transactions.slice(i, i + 100);
\* await createMany({ transactions: batch }); a throw leaves the loop for
\* the catch (console.error) and finally (setImporting(false))
importBatch ==
  /\ write.pc = "sending"
  /\ write.i < Len(write.rows)
  /\ LET batch == slice(write.rows, write.i, write.i + BATCH_SIZE)
     IN  IF createManyThrows(user, batch)
           THEN /\ records' = records
                /\ write' = [write EXCEPT !.pc = "failed"]
                /\ outcome' = "import: failed"
           ELSE /\ records' = createMany(records, user, batch)
                /\ write' = [write EXCEPT !.i = @ + BATCH_SIZE]
                /\ outcome' = "import: batch stored"
  /\ UNCHANGED <<db, keyStore, cred, user, settings, cryptoKey, showSetup,
                 showUnlock, hasBio, restorePending, promptArmed, setupCall,
                 setupDlg, unlockCall, bioCall, unlockDlg, changeCall, vault,
                 inserts, decrypted, scenario, idle, away, timedOut, passes>>

\* the loop condition fails: setDone(true), setImporting(false)
importDone ==
  /\ write.pc = "sending"
  /\ write.i >= Len(write.rows)
  /\ write' = [write EXCEPT !.pc = "done"]
  /\ outcome' = "import: done"
  /\ UNCHANGED <<db, keyStore, cred, user, settings, cryptoKey, showSetup,
                 showUnlock, hasBio, restorePending, promptArmed, setupCall,
                 setupDlg, unlockCall, bioCall, unlockDlg, changeCall, vault,
                 inserts, records, decrypted, scenario, idle, away, timedOut, passes>>

NextImport == importBatch \/ importDone

SpecImport == InitImport /\ [][NextImport]_vars

\* -------------------------------------- the hook's asynchronous decryption
\* the context's decryptValue as a closure over the key of the provider
\* render that created it
decryptValueOf(key, ciphertext) ==
  IF key = NoKey THEN ciphertext
  ELSE LET r == decrypt(ciphertext, key)
       IN  IF r.ok THEN Plain(r.val) ELSE ciphertext

\* one turn of decryptAll's loop: the row pushed to results
decryptAllRow(key, t) ==
  IF t.encrypted
    THEN [t EXCEPT !.description = decryptValueOf(key, t.description),
                   !.amount = parseFloatOr0(
                                IF t.amount.kind # "num"
                                  THEN decryptValueOf(key, t.amount)
                                  ELSE Plain(String(t.amount)))]
  ELSE [t EXCEPT !.amount = coerceAmount(t.amount)]

cancelledIgnored(pass) == FALSE

\* the `cancelled` flag of the effect run that called decryptAll
cancelled(pass) == pass.cancelled

\* the effect's cleanup: cancelled = true
cleanup(ps) == [i \in 1..Len(ps) |-> [ps[i] EXCEPT !.cancelled = TRUE]]

Remove(ps, i) == SubSeq(ps, 1, i - 1) \o SubSeq(ps, i + 1, Len(ps))

\* the hook's effect for given inputs: an empty list and a session without
\* encryption or key are published at once, otherwise decryptAll is called
effect(raw, enabled, key, before, ps) ==
  IF Len(raw) = 0
    THEN [decrypted |-> [loaded |-> TRUE, rows |-> <<>>], passes |-> ps]
  ELSE IF ~enabled \/ key = NoKey
    THEN [decrypted |->
            [loaded |-> TRUE,
             rows |-> [i \in 1..Len(raw) |->
                         [raw[i] EXCEPT !.amount = coerceAmount(raw[i].amount)]]],
          passes |-> ps]
  ELSE [decrypted |-> before,
        passes |-> Append(ps, [raw |-> raw, key |-> key, results |-> <<>>,
                               cancelled |-> FALSE])]

\* rows of the signed-in user as the forms write them
OwnRows ==
  {[userId |-> "A", amount |-> Num(a), description |-> Plain(d),
    encrypted |-> FALSE] : a \in Amounts, d \in Descriptions}
  \cup
  {[userId |-> "A", amount |-> encrypt(a, k, iv),
    description |-> encrypt(d, k, iv), encrypted |-> TRUE]
     : a \in Amounts, d \in Descriptions, k \in CorpusKeys, iv \in IVs}

OwnCorpora == UNION {[1..n -> OwnRows] : n \in 0..MaxCorpus}

\* the hook has mounted for user A and its effect has run once
InitPass ==
  /\ db = [u \in Users |-> NoSettings]
  /\ keyStore = [u \in Users |-> NoKey]
  /\ cred = [u \in Users |-> FALSE]
  /\ user = "A"
  /\ settings \in {NoSettings, EarlierSettings}
  /\ cryptoKey \in {NoKey} \cup CorpusKeys
  /\ showSetup = FALSE
  /\ showUnlock = FALSE
  /\ hasBio = FALSE
  /\ restorePending = FALSE
  /\ promptArmed = FALSE
  /\ setupCall = IdleSetup
  /\ setupDlg = ClosedSetupDlg
  /\ unlockCall = IdleUnlock
  /\ bioCall = IdleBio
  /\ unlockDlg = ClosedUnlockDlg
  /\ changeCall = IdleChange
  /\ vault = {}
  /\ inserts = [u \in Users |-> 0]
  /\ records \in OwnCorpora
  /\ write = IdleWrite
  /\ LET e == effect(rawTransactions, isEnabled, cryptoKey, Undefined, <<>>)
     IN  decrypted = e.decrypted /\ passes = e.passes
  /\ scenario = NoScenario
  /\ outcome = "none"
  /\ idle = 0
  /\ away = FALSE
  /\ timedOut = FALSE

\* a render with a changed dependency (the query's list, isUnlocked,
\* isEnabled, decryptValue): the cleanup of the last effect run, then the
\* effect with the new inputs
effectRun ==
  /\ Len(passes) < MaxPasses
  /\ settings' \in {NoSettings, EarlierSettings}
  /\ cryptoKey' \in {NoKey} \cup CorpusKeys
  /\ records' \in OwnCorpora
  /\ <<records', cryptoKey', settings' # NoSettings>>
       # <<records, cryptoKey, settings # NoSettings>>
  /\ LET e == effect(transactionsGet(records', user), settings' # NoSettings,
                     cryptoKey', decrypted, cleanup(passes))
     IN  decrypted' = e.decrypted /\ passes' = e.passes
  /\ outcome' = "hook: effect"
  /\ UNCHANGED <<db, keyStore, cred, user, showSetup, showUnlock, hasBio,
                 restorePending, promptArmed, setupCall, setupDlg, unlockCall,
                 bioCall, unlockDlg, changeCall, vault, inserts, write,
                 scenario, idle, away, timedOut>>

\* decryptAll resumes at the top of its loop: if (cancelled) return;
\* otherwise the next row is decrypted and pushed
decryptAllStep(i) ==
  /\ i \in 1..Len(passes)
  /\ Len(passes[i].results) < Len(passes[i].raw)
  /\ passes' =
       IF cancelled(passes[i]) THEN Remove(passes, i)
       ELSE [passes EXCEPT ![i].results =
               Append(@, decryptAllRow(passes[i].key,
                                       passes[i].raw[Len(@) + 1]))]
  /\ outcome' = "hook: row"
  /\ UNCHANGED <<db, keyStore, cred, user, settings, cryptoKey, showSetup,
                 showUnlock, hasBio, restorePending, promptArmed, setupCall,
                 setupDlg, unlockCall, bioCall, unlockDlg, changeCall, vault,
                 inserts, records, write, decrypted, scenario, idle, away,
                 timedOut>>

\* the loop is over: if (!cancelled) setDecrypted(results)
decryptAllEnd(i) ==
  /\ i \in 1..Len(passes)
  /\ Len(passes[i].results) = Len(passes[i].raw)
  /\ decrypted' = IF cancelled(passes[i]) THEN decrypted
                  ELSE [loaded |-> TRUE, rows |-> passes[i].results]
  /\ passes' = Remove(passes, i)
  /\ outcome' = IF cancelled(passes[i]) THEN "hook: dropped"
                ELSE "hook: published"
  /\ UNCHANGED <<db, keyStore, cred, user, settings, cryptoKey, showSetup,
                 showUnlock, hasBio, restorePending, promptArmed, setupCall,
                 setupDlg, unlockCall, bioCall, unlockDlg, changeCall, vault,
                 inserts, records, write, scenario, idle, away, timedOut>>

NextPass ==
  \/ effectRun
  \/ \E i \in 1..MaxPasses : decryptAllStep(i)
  \/ \E i \in 1..MaxPasses : decryptAllEnd(i)

SpecPass == InitPass /\ [][NextPass]_vars

\* ================================================================== claims
SetupOutcomes == {"setup: done", "setup: rejected", "setup: refused"}
\* handleSetup resolved, with or without the optional biometric registration
SetupDone == {"setup: done", "setup: done, biometric skipped"}
UnlockOutcomes == {"unlock: true", "unlock: false", "unlock: threw"}
BioOutcomes == {"bio: true", "bio: false", "bio: no key"}

\* a step that is neither a page reload nor a change of user
SameSession == outcome' \notin {"reload", "sign-out", "switch"}

\* C1: handleSetup, for a signed-in user, leaves in the backend the salt and
\* the verification token of the key derived from the submitted passphrase,
\* installs that key in memory when the mutation has settled and writes it to
\* the key store under the user's id; when it completes in a session that no
\* other user's call disturbed, the in-memory key and the stored key are both
\* that key.
C1_SetupInstallsKey ==
  [][LET u == setupCall.uid
         k == deriveKey(setupCall.pass, base64ToSalt(db'[u].salt))
     IN  /\ (setupCall.pc = "mutating" /\ setupCall'.pc = "saving")
              => /\ db'[u] # NoSettings
                 /\ verifyPassphrase(k, db'[u].verificationHash)
                 /\ cryptoKey' = k
         /\ (setupCall.pc = "saving" /\ setupCall'.pc # "saving"
               /\ SameSession /\ outcome' # "setup: rejected")
              => /\ verifyPassphrase(k, db'[u].verificationHash)
                 /\ keyStore'[u] = k
         /\ (outcome' \in SetupDone /\ scenario.stage = "starting")
              => /\ u = user' /\ u \in Users
                 /\ db'[u] # NoSettings
                 /\ verifyPassphrase(k, db'[u].verificationHash)
                 /\ cryptoKey' = k
                 /\ keyStore'[u] = k]_vars

C1_Witness ==
  /\ outcome = "setup: done"
  /\ scenario.stage = "setup"
  /\ user = scenario.uid
  /\ cryptoKey # NoKey
  /\ cryptoKey = deriveKey(scenario.pass, base64ToSalt(db[user].salt))
  /\ keyStore[user] = cryptoKey

\* the passphrase of an unlock attempt is not the one the user's settings
\* were made from
WrongPassphrase(call) ==
  /\ call.uid \in Users
  /\ db[call.uid] # NoSettings
  /\ call.pass # db[call.uid].verificationHash.key.pass

\* C2: a passphrase unlock with a wrong passphrase returns false, leaves the
\* in-memory key, the key store and the dialog as they were, and reports only
\* the generic "incorrect passphrase" error.
C2_WrongPassphraseStaysLocked ==
  [][(unlockCall.pc = "deriving" /\ WrongPassphrase(unlockCall)
        /\ unlockCall'.pc # "deriving" /\ SameSession)
       => /\ outcome' = "unlock: false"
          /\ cryptoKey' = cryptoKey
          /\ keyStore' = keyStore
          /\ showUnlock' = showUnlock
          /\ settings' = settings
          /\ UnlockDialogOpen => unlockDlg'.error = "err: incorrect passphrase"]_vars

C2_Witness ==
  /\ outcome = "unlock: false"
  /\ cryptoKey = NoKey
  /\ user # None
  /\ keyStore[user] = NoKey
  /\ UnlockDialogOpen
  /\ unlockDlg.error = "err: incorrect passphrase"

\* C3: scenario. After a successful setup the session is Unlocked; once the
\* inactivity timer has locked it, there is no in-memory key and encryptValue
\* returns its input unchanged; once the correct passphrase has been entered
\* again the session is Unlocked and every value encrypted after the setup
\* decrypts to its original plaintext.
C3_SetupLockUnlockScenario ==
  /\ scenario.stage = "setup" => isUnlocked
  /\ scenario.stage = "locked"
       => /\ ~isUnlocked
          /\ \A plaintext \in Plaintexts, iv \in IVs :
               encryptValue(plaintext, iv) = Plain(plaintext)
  /\ scenario.stage = "unlocked"
       => /\ isUnlocked
          /\ \A e \in vault :
               (e.uid = scenario.uid /\ e.scen # "off")
                 => decryptValue(e.out) = Plain(e.pt)

C3_Witness ==
  /\ scenario.stage = "unlocked"
  /\ outcome = "unlock: true"
  /\ \E e \in vault :
       /\ e.uid = scenario.uid
       /\ e.scen = "setup"
       /\ e.out.kind = "enc"
       /\ decryptValue(e.out) = Plain(e.pt)

\* C4: the inactivity lock clears the in-memory key, and clears the user's
\* key-store entry exactly when no biometric credential is registered for the
\* user at the moment the lock fires.
C4_LockClearsStoreIffNoCredential ==
  [][outcome' = "lock"
       => /\ cryptoKey' = NoKey
          /\ keyStore' = IF getCredentialId(cred, user)
                           THEN keyStore
                           ELSE clearKey(keyStore, user)]_vars

\* C5: a sign-out from the Unlocked state (no handler in flight) leaves no
\* in-memory key and no key-store entry for the user who signed out.
C5_SignOutClearsKeys ==
  [][(user # None /\ isUnlocked /\ InFlight = 0 /\ user' = None)
       => /\ cryptoKey' = NoKey
          /\ keyStore'[user] = NoKey]_vars

\* C6: whenever the authenticated user changes to another user or to none
\* (no handler in flight), the in-memory key cached for the previous user is
\* cleared, so that no key of the previous user serves the next one.
C6_UserChangeClearsKey ==
  [][(user # None /\ InFlight = 0 /\ user' # user) => cryptoKey' = NoKey]_vars

\* C7: when a passphrase change whose current passphrase verified comes back,
\* the backend's salt and token are those of the new passphrase, the key store
\* holds the new key, and the old passphrase no longer verifies.
C7_ChangeReplacesSettings ==
  [][(changeCall.pc = "mutating"
        /\ outcome' \in {"change: done", "change: failed"})
       => LET u == changeCall.uid
              fresh == deriveKey(changeCall.next, base64ToSalt(db'[u].salt))
              old == deriveKey(db[u].verificationHash.key.pass,
                               base64ToSalt(db'[u].salt))
          IN  /\ verifyPassphrase(fresh, db'[u].verificationHash)
              /\ keyStore'[u] = fresh
              /\ changeCall.next # db[u].verificationHash.key.pass
                   => ~verifyPassphrase(old, db'[u].verificationHash)]_vars

\* C8: a biometric unlock installs a key only when the assertion succeeded and
\* the key store held a key for the user, and the key installed is that stored
\* key; otherwise the in-memory key and the dialog stay as they were, no
\* passphrase derivation is started, and the passphrase form is offered.
C8_BiometricUnlock ==
  [][outcome' \in BioOutcomes
       => LET u == IF bioCall.pc = "prompt" THEN bioCall.uid ELSE user
          IN  /\ outcome' = "bio: true"
                   => /\ bioCall.pc = "prompt"
                      /\ keyStore[u] # NoKey
                      /\ cryptoKey' = keyStore[u]
              /\ outcome' # "bio: true"
                   => /\ cryptoKey' = cryptoKey
                      /\ showUnlock' = showUnlock
                      /\ UnlockDialogOpen' => unlockDlg'.showPass
              /\ keyStore[u] = NoKey => outcome' # "bio: true"
              /\ unlockCall' = unlockCall
              /\ keyStore' = keyStore]_vars

C8_Witness ==
  /\ outcome = "bio: true"
  /\ user # None
  /\ cryptoKey # NoKey
  /\ cryptoKey = keyStore[user]
  /\ ~showUnlock

\* C9: in an Unlocked session with no handler in flight, once "clear local
\* key" has run, the key store still holds the in-memory key under the user's
\* id.
C9_UnlockedImpliesStored ==
  (outcome = "clear local key" /\ isUnlocked /\ user # None /\ InFlight = 0)
    => keyStore[user] = cryptoKey

\* C10: encryptValue returns the plaintext unchanged when there is no
\* in-memory key, and otherwise a ciphertext under the in-memory key that
\* decrypts back to the plaintext.
C10_EncryptValue ==
  /\ ~isUnlocked
       => \A plaintext \in Plaintexts, iv \in IVs :
            encryptValue(plaintext, iv) = Plain(plaintext)
  /\ \A e \in vault :
       IF e.key = NoKey
         THEN e.out = Plain(e.pt)
         ELSE /\ e.out = encrypt(e.pt, e.key, e.out.iv)
              /\ e.out # Plain(e.pt)
              /\ decrypt(e.out, e.key) = [ok |-> TRUE, val |-> e.pt]

C10_Witness ==
  \E e \in vault :
    /\ e.key # NoKey
    /\ e.key = cryptoKey
    /\ e.out.kind = "enc"
    /\ decrypt(e.out, e.key).val = e.pt

\* a ciphertext damaged in storage or transit: not base64 any more, or bytes
\* that fail the AES-GCM tag
Garbled(c) == [c EXCEPT !.kind = "garbled"]

\* strings a caller may hand to decryptValue: text that was never encrypted,
\* ciphertexts under any key, and damaged ciphertexts
DecryptInputs ==
  LET ciphertexts == {encrypt(t, k, iv) : t \in Plaintexts, k \in Keys,
                                          iv \in IVs}
  IN  {Plain(t) : t \in Plaintexts} \cup ciphertexts
        \cup {Garbled(c) : c \in ciphertexts}

\* C11: decryptValue never throws: with no key it returns its input; with a
\* key it returns the plaintext of a ciphertext made under that key and
\* returns every other input (wrong key, damaged, never encrypted) unchanged.
C11_DecryptValueTotal ==
  \A c \in DecryptInputs :
    LET out == decryptValue(c)
    IN  /\ out # Thrown
        /\ out.kind \in {"plain", "enc", "garbled"}
        /\ ~isUnlocked => out = c
        /\ isUnlocked
             => IF c.kind = "enc" /\ c.key = cryptoKey
                  THEN out = Plain(c.pt)
                  ELSE out = c

C11_Witness ==
  /\ isUnlocked
  /\ \E c \in DecryptInputs :
       c.kind = "enc" /\ c.key # cryptoKey /\ decryptValue(c) = c
  /\ \E c \in DecryptInputs : c.kind = "garbled" /\ decryptValue(c) = c
  /\ \E c \in DecryptInputs : c.kind = "plain" /\ decryptValue(c) = c
  /\ \E c \in DecryptInputs :
       c.kind = "enc" /\ decryptValue(c) = Plain(c.pt)

\* arguments a client can pass to the setup mutation
SetupArgs ==
  {[salt |-> saltToBase64(n), verificationHash |-> createVerificationHash(k, iv)]
     : n \in Salts, k \in Keys, iv \in IVs}

\* C12: backend setup is one-time: called for an identity that has settings it
\* fails and changes nothing; a settings record, once written, never changes;
\* no identity gets more than one record inserted; get returns null for an
\* identity until its first successful setup.
C12_SetupOneTime ==
  [][\A u \in Users :
       /\ db[u] # NoSettings
            => /\ db'[u] = db[u]
               /\ \A args \in SetupArgs :
                    setup(db, u, args) = [ok |-> FALSE, table |-> db]
       /\ inserts'[u] <= 1
       /\ inserts'[u] = 0 <=> get(db', u) = NoSettings
       /\ inserts'[u] # inserts[u] => db[u] = NoSettings /\ db'[u] # NoSettings
       /\ /\ changeCall.pc = "idle"
          /\ changeCall'.pc = "mutating"
          /\ changeCall'.uid = u
          /\ db[u] # NoSettings
          => ~changeCall'.ok /\ db' = db]_vars

\* a setup mutation was sent for an identity that already has settings
C12_Witness ==
  /\ changeCall.pc = "mutating"
  /\ ~changeCall.ok
  /\ inserts[changeCall.uid] = 1
  /\ db[changeCall.uid] # NoSettings
  /\ \E u \in Users : inserts[u] = 0 /\ get(db, u) = NoSettings

\* a field value that encrypt produced under some key
IsCiphertext(f) == f.kind = "enc" /\ f.key \in Keys /\ decrypt(f, f.key).ok

\* a field value that is the plaintext the form held
IsPlaintext(f) == f.kind \in {"num", "plain"}

\* C13: every stored transaction carries the encrypted flag if and only if
\* both its amount and its description are ciphertext made by encrypt under a
\* key, and one without the flag has a plaintext amount and description; the
\* rows a write inserts are flagged and encrypted as the handler decided when
\* it started, whatever happened to the session while it was in flight.
C13_RecordFlag ==
  [][/\ \A i \in 1..Len(records') :
          LET t == records'[i]
          IN  /\ t.encrypted
                   <=> IsCiphertext(t.amount) /\ IsCiphertext(t.description)
              /\ ~t.encrypted
                   => IsPlaintext(t.amount) /\ IsPlaintext(t.description)
     /\ (write.pc = "encrypting" /\ write'.pc = "idle")
          => \A i \in (Len(records) + 1)..Len(records') :
               LET t == records'[i]
               IN  /\ t.encrypted = write.shouldEncrypt
                   /\ t.encrypted
                        => t.amount.key = write.key
                           /\ t.description.key = write.key]_vars

\* a write that chose to encrypt was stored after the session had locked
C13_Witness ==
  /\ outcome = "write: stored, session changed"
  /\ ~isUnlocked
  /\ Len(records) >= 1
  /\ records[Len(records)].encrypted
  /\ IsCiphertext(records[Len(records)].amount)

\* C14: over a raw list that may mix flagged and unflagged rows, and in every
\* lock state (no settings, locked, unlocked), the hook yields one row per
\* raw row of the caller; an unflagged row comes out as it is, amount and
\* description included; a flagged row is decrypted when the session holds
\* the key it was encrypted under, and keeps its raw description otherwise.
C14_MixedCorpus ==
  decrypted.loaded
    => /\ Len(decrypted.rows) = Len(rawTransactions)
       /\ \A i \in 1..Len(rawTransactions) :
            LET t == rawTransactions[i]
                d == decrypted.rows[i]
            IN  /\ d.userId = user
                /\ ~t.encrypted => d = t
                /\ t.encrypted
                     => IF isEnabled /\ isUnlocked /\ t.amount.key = cryptoKey
                          THEN /\ d.description = Plain(t.description.pt)
                               /\ d.amount = Num(t.amount.pt)
                          ELSE /\ d.description = t.description
                               /\ d.amount = Num("0")

\* an unlocked session has rendered a list holding a flagged row, decrypted,
\* next to an unflagged one
C14_Witness ==
  /\ decrypted.loaded
  /\ isEnabled
  /\ isUnlocked
  /\ Len(rawTransactions) = 2
  /\ \E i, j \in 1..2 :
       /\ rawTransactions[i].encrypted
       /\ decrypted.rows[i].description.kind = "plain"
       /\ decrypted.rows[i].amount = Num(rawTransactions[i].amount.pt)
       /\ ~rawTransactions[j].encrypted
       /\ decrypted.rows[j] = rawTransactions[j]

\* the text of a stored or transmitted value, where it has one
TextOf(f) == IF f.kind \in {"plain", "num"} THEN f.pt ELSE ""

\* C15: in every state reached by setup, unlock, passphrase change, lock and
\* transaction writes, the backend holds for a user only a salt and a
\* verification token (the fixed verification text under a derived key), the
\* transactions table holds only form values or their ciphertexts, the key
\* store holds only keys derived from a passphrase and a salt, and the
\* credential map holds only the presence of a credential id: none of these
\* values is a passphrase.
C15_PassphraseConfined ==
  /\ \A u \in Users :
       /\ db[u] # NoSettings
            => /\ db[u].salt \in {saltToBase64(n) : n \in Salts}
               /\ db[u].verificationHash.kind = "enc"
               /\ db[u].verificationHash.pt = VERIFICATION_PLAINTEXT
               /\ db[u].verificationHash.key \in Keys
       /\ keyStore[u] \in Keys \cup {NoKey}
       /\ keyStore[u].pass \in Passphrases => keyStore[u].salt \in Salts
       /\ cred[u] \in BOOLEAN
  /\ \A i \in 1..Len(records) :
       \A f \in {records[i].amount, records[i].description} :
         /\ f.kind \in {"num", "plain", "enc"}
         /\ TextOf(f) \notin Passphrases
         /\ f.kind = "enc" => f.key \in Keys /\ f.pt \notin Passphrases

\* a locked session after a setup, a passphrase change attempt and an
\* encrypted write, with the key kept in the store
C15_Witness ==
  /\ ~isUnlocked
  /\ \E u \in Users :
       /\ db[u] # NoSettings
       /\ keyStore[u] \in Keys
       /\ changeCall.uid = u
       /\ changeCall.next \in Passphrases
  /\ Len(records) >= 1
  /\ records[1].encrypted

\* C16: when a biometric credential is registered for the user (in Settings,
\* after setup) and the store holds the session's key, the inactivity lock
\* leaves that key in the store, and a verified biometric assertion in the
\* session so locked installs a key again.
C16_BiometricReunlock ==
  [][/\ (outcome' = "lock" /\ getCredentialId(cred, user)
           /\ keyStore[user] = cryptoKey)
          => keyStore'[user] = cryptoKey
     /\ (bioCall.pc = "prompt" /\ bioCall'.pc = "idle"
           /\ outcome' \in {"bio: true", "bio: no key"}
           /\ scenario.stage = "locked" /\ scenario.uid = bioCall.uid)
          => outcome' = "bio: true" /\ cryptoKey' # NoKey]_vars

\* C17: verifyBiometric never throws; without a stored credential id it
\* returns false and issues no authenticator prompt; with one it returns true
\* exactly when the authenticator answers with an assertion and false on
\* cancellation, timeout or a missing authenticator. In the session, a prompt
\* is pending only after a lookup that found a credential, a biometric unlock
\* that ends without a prompt ends false, and no biometric unlock ends in an
\* exception.
C17_VerifyBiometricFailClosed ==
  [][/\ \A u \in Users, answer \in AuthenticatorAnswers :
          LET v == verifyBiometric(getCredentialId(cred, u), answer)
          IN  /\ ~v.threw
              /\ ~cred[u] => ~v.prompted /\ ~v.result
              /\ cred[u] => v.prompted /\ (v.result <=> answer = "assertion")
     /\ (bioCall.pc = "idle" /\ bioCall'.pc = "prompt")
          => user # None /\ cred[user]
     /\ (bioCall.pc = "idle" /\ outcome' \in BioOutcomes)
          => /\ outcome' = "bio: false"
             /\ bioCall'.pc = "idle"
             /\ user = None \/ ~cred[user]
     /\ (bioCall.pc = "prompt" /\ bioCall'.pc = "idle" /\ SameSession)
          => outcome' \in BioOutcomes
     /\ outcome' # "bio: threw"]_vars

\* a prompt that the user cancelled has ended in false, with the session still
\* locked and the credential still registered
C17_Witness ==
  /\ outcome = "bio: false"
  /\ user # None
  /\ cred[user]
  /\ ~isUnlocked
  /\ UnlockDialogOpen
  /\ unlockDlg.showPass

\* C18: registerBiometric stores a credential id for the user only when the
\* credential was created, and leaves the credential map as it was when
\* creation failed or was cancelled; when the registration that ends a setup
\* fails, handleSetup still resolves: no error is shown, the dialog closes,
\* the backend record, the stored key and the in-memory key stay, and a setup
\* that nothing else disturbed ends unlocked with its key in the store.
C18_RegistrationNonFatal ==
  [][/\ \A u \in Users :
          /\ registerBiometric(cred, u, FALSE) = [threw |-> TRUE, cred |-> cred]
          /\ registerBiometric(cred, u, TRUE).cred
               = [cred EXCEPT ![u] = TRUE]
     /\ (setupCall.pc = "registering" /\ setupCall'.pc = "idle" /\ SameSession)
          => LET u == setupCall.uid
             IN  /\ outcome' \in SetupDone
                 /\ \A v \in Users \ {u} : cred'[v] = cred[v]
                 /\ outcome' = "setup: done" => cred'[u]
                 /\ outcome' = "setup: done, biometric skipped"
                      => /\ cred' = cred
                         /\ db' = db
                         /\ keyStore' = keyStore
                         /\ cryptoKey' = cryptoKey
                         /\ ~showSetup'
                         /\ setupDlg'.error = ""
                         /\ scenario.stage = "starting"
                              => /\ cryptoKey' = setupCall.key
                                 /\ keyStore'[u] = setupCall.key]_vars

\* a setup whose biometric registration was cancelled has ended unlocked
C18_Witness ==
  /\ outcome = "setup: done, biometric skipped"
  /\ user # None
  /\ ~cred[user]
  /\ isEnabled
  /\ isUnlocked
  /\ keyStore[user] = cryptoKey
  /\ ~showSetup

\* C19: whenever the unlock dialog is open its skip button is there to be
\* clicked, and a skip closes the dialog and leaves the session without an
\* in-memory key, so that encryptValue and decryptValue return their input.
C19_SkipAlwaysAvailable ==
  [][/\ UnlockDialogOpen => PassphraseFormShown
     /\ (outcome' = "skip" /\ ~isUnlocked)
          => /\ ~UnlockDialogOpen'
             /\ cryptoKey' = NoKey
             /\ \A t \in Plaintexts, iv \in IVs :
                  encryptValueOf(cryptoKey', t, iv) = Plain(t)]_vars

\* the step in which saveKey rejects inside handleSetup / handleUnlock
SetupSaveRejected == setupCall.pc = "saving" /\ outcome' = "setup: rejected"
UnlockSaveRejected == unlockCall.pc = "saving" /\ outcome' = "unlock: threw"

\* the step in which handleSetup / handleUnlock installs the derived key and
\* starts saveKey
SetupKeyInstalled == setupCall.pc = "mutating" /\ setupCall'.pc = "saving"
UnlockKeyInstalled == unlockCall.pc = "deriving" /\ unlockCall'.pc = "saving"

PageLoading ==
  /\ user # None
  /\ settings = NoSettings
  /\ db[user] # NoSettings
  /\ cryptoKey = NoKey
  /\ ~showUnlock

SetupLeavesAlone ==
  /\ db' = db
  /\ inserts' = inserts
  /\ keyStore' = keyStore
  /\ cred' = cred
  /\ cryptoKey' = cryptoKey
  /\ settings' = settings
  /\ showUnlock' = showUnlock
  /\ showSetup' = showSetup

MalformedHashes ==
  {Garbled(createVerificationHash(k, iv)) : k \in Keys, iv \in IVs}
    \cup {Plain(t) : t \in Plaintexts \cup {VERIFICATION_PLAINTEXT}}
    \cup {encrypt(t, k, iv) : t \in Plaintexts, k \in Keys, iv \in IVs}

\* C23: verifyPassphrase accepts a key against the verification hash made
\* with the key of the same passphrase and salt, and answers false, never
\* anything else, for the key of another passphrase or another salt (the
\* key the session holds, or no key, included) and for a malformed stored hash.
C23_VerificationRoundTrip ==
  \A p \in Passphrases, n \in Salts, iv \in IVs :
    LET key == deriveKey(p, n)
        storedHash == createVerificationHash(key, iv)
    IN  /\ verifyPassphrase(deriveKey(p, n), storedHash) = TRUE
        /\ \A q \in Passphrases, m \in Salts :
             (q # p \/ m # n)
               => verifyPassphrase(deriveKey(q, m), storedHash) = FALSE
        /\ \A h \in MalformedHashes :
             /\ verifyPassphrase(key, h) = FALSE
             /\ verifyPassphrase(cryptoKey, h) = FALSE
        /\ cryptoKey # key => verifyPassphrase(cryptoKey, storedHash) = FALSE

\* the provider holds settings whose hash the right key passes and a key of
\* another passphrase and a key of another salt both fail
C23_Witness ==
  /\ settings # NoSettings
  /\ \E p \in Passphrases, n \in Salts :
       /\ verifyPassphrase(deriveKey(p, n), settings.verificationHash)
       /\ \E q \in Passphrases \ {p} :
            ~verifyPassphrase(deriveKey(q, n), settings.verificationHash)
       /\ \E m \in Salts \ {n} :
            ~verifyPassphrase(deriveKey(p, m), settings.verificationHash)
  /\ \E h \in MalformedHashes :
       h.kind = "garbled" /\ ~verifyPassphrase(cryptoKey, h)

\* C24: the inactivity timeout runs only while the session is Unlocked for a
\* signed-in user and starts from zero when it is set; it is only ever set
\* back to zero, never part of the way; lock() runs only when a whole
\* INACTIVITY_MS has passed since the timeout was last set, and leaves the
\* session Locked with the unlock flag raised. And once the user has left
\* the device, a session that is Unlocked (settings exist, key in memory) for
\* a signed-in user comes to be Locked with the unlock dialog shown.
C24_InactivityLock ==
  /\ [](idle # 0 => isUnlocked /\ user # None)
  /\ [][/\ ~(isUnlocked /\ user # None) /\ isUnlocked' /\ user' # None
             => idle' = 0
        /\ idle' < idle => idle' = 0
        /\ outcome' = "lock" /\ cryptoKey' # cryptoKey
             => /\ isUnlocked /\ user # None
                /\ idle = InactivityTicks
                /\ ~isUnlocked'
                /\ showUnlock']_vars
  /\ (away /\ isUnlocked /\ user # None /\ isEnabled)
       ~> (~isUnlocked /\ UnlockDialogOpen)

\* the timeout ran its whole time after the user had left, and lock() has
\* left the session Locked with the dialog open
C24_Witness ==
  /\ outcome = "lock"
  /\ ~isUnlocked
  /\ UnlockDialogOpen
  /\ idle = 0
  /\ user # None
  /\ scenario.stage = "locked"
  /\ away

\* the rows the backend holds for the importing user, as the file had them
Imported ==
  [k \in 1..Len(records) |->
     [amount |-> records[k].amount, description |-> records[k].description,
      encrypted |-> records[k].encrypted]]

\* C25: handleImport sends the valid rows in sequential createMany calls of
\* at most 100 rows each: after every call the backend holds, under the
\* caller's identity, exactly the rows before the loop index, each once and
\* in the file's order; no call of a signed-in user is rejected, so a
\* finished import has stored all N rows; and createMany with more than 100
\* rows inserts nothing.
C25_ImportBatching ==
  /\ [](/\ write.pc \in {"sending", "done"}
             => /\ write.i % MAX_BATCH = 0
                /\ Imported = SubSeq(write.rows, 1,
                                     IF write.i < Len(write.rows)
                                       THEN write.i ELSE Len(write.rows))
                /\ \A k \in 1..Len(records) : records[k].userId = user
        /\ write.pc = "done" => Imported = write.rows
        /\ write.pc = "failed" => user = None /\ records = <<>>
        /\ Len(write.rows) > MAX_BATCH
             => createMany(records, user, write.rows) = records)
  /\ [][/\ Len(records') - Len(records) <= MAX_BATCH
        /\ records' # records
             => /\ write'.i = write.i + BATCH_SIZE
                /\ Len(records') - Len(records)
                     = (IF Len(write.rows) - write.i < BATCH_SIZE
                          THEN Len(write.rows) - write.i ELSE BATCH_SIZE)]_vars

\* an import of more than two full batches has finished for a signed-in user
C25_Witness ==
  /\ write.pc = "done"
  /\ user # None
  /\ Len(write.rows) > 2 * MAX_BATCH
  /\ Len(records) = Len(write.rows)
  /\ records[MAX_BATCH + 1].amount = Num(MAX_BATCH + 1)

\* C26: while a handleSetup call of the signed-in user is pending, the setup
\* dialog, if shown, has its submit control disabled (loading), and likewise
\* the passphrase form of the unlock dialog while a handleUnlock call is
\* pending, so that no second call can be started; and the step at which
\* the call resolves leaves an open dialog with loading reset.
C26_SubmitDisabledInFlight ==
  /\ [](/\ (setupCall.pc # "idle" /\ setupCall.uid = user /\ showSetup)
             => setupDlg.loading
        /\ (unlockCall.pc # "idle" /\ unlockCall.uid = user
            /\ PassphraseFormShown)
             => unlockDlg.loading)
  /\ [][/\ (setupCall.pc # "idle" /\ setupCall'.pc = "idle" /\ showSetup')
             => ~setupDlg'.loading
        /\ (unlockCall.pc # "idle" /\ unlockCall'.pc = "idle"
            /\ UnlockDialogOpen')
             => ~unlockDlg'.loading]_vars

\* C27: the step by which 'clear local key' empties the store entry or the
\* credential id of the signed-in user leaves the store without an entry and
\* localStorage without a credential id for that user, and leaves the device
\* locked: no key in memory, so that decryptValue returns a ciphertext as it
\* is until the user unlocks again.
C27_ClearLocalKeyLocks ==
  [][(/\ outcome' = "clear local key"
      /\ (keyStore' # keyStore \/ cred' # cred))
       => /\ loadKey(keyStore', user) = NoKey
          /\ ~getCredentialId(cred', user)
          /\ ~isUnlocked'
          /\ \A c \in DecryptInputs :
               c.kind = "enc" => decryptValue(c)' = c]_vars

\* a verification that has just succeeded installs the key: handleUnlock
\* after verifyPassphrase, handleBiometricUnlock after verifyBiometric
AuthenticatedInstall ==
  \/ /\ unlockCall.pc = "deriving"
     /\ unlockCall.valid
     /\ cryptoKey' = unlockCall.key
  \/ /\ bioCall.pc = "prompt"
     /\ outcome' = "bio: true"

\* C28: for a user whose session the inactivity lock has locked and who has
\* not unlocked by passphrase or biometric since, every step that puts a key
\* into memory is the success of a passphrase or biometric verification; a
\* reload, a settings refetch or the removal of the biometric registration
\* never does.
C28_ReunlockRequiresAuthentication ==
  [][(/\ timedOut
      /\ user' = user
      /\ ~isUnlocked
      /\ isUnlocked')
       => AuthenticatedInstall]_vars

\* C29: a step that installs a key obtained by an asynchronous operation
\* installs it for the user the operation was started for: handleUnlock and
\* handleBiometricUnlock never install while another user is the
\* authenticated one, and the restore effect installs the store entry of the
\* user authenticated now.
C29_NoStaleKeyInstallation ==
  [][/\ (/\ unlockCall.pc = "deriving"
         /\ unlockCall'.pc = "saving"
         /\ cryptoKey' = unlockCall.key
         /\ user' # None)
          => unlockCall.uid = user'
     /\ (bioCall.pc = "prompt" /\ outcome' = "bio: true" /\ user' # None)
          => bioCall.uid = user'
     /\ (restorePending /\ outcome' = "restore: key")
          => cryptoKey' = loadKey(keyStore, user')]_vars

\* C30: whatever the hook publishes is the list for the inputs of its last
\* render: the raw list row by row, in its order and of its length, each row
\* as the lock state and key of that render make it; a decryptAll call whose
\* inputs have been replaced since it started changes nothing when it
\* returns.
C30_NoStaleDecryption ==
  [][/\ decrypted' # decrypted
          => /\ decrypted'.loaded
             /\ Len(decrypted'.rows) = Len(rawTransactions')
             /\ decrypted'.rows = useDecryptedTransactions'
     /\ (/\ outcome' \in {"hook: row", "hook: dropped", "hook: published"}
         /\ Len(passes') < Len(passes)
         /\ \A i \in 1..Len(passes) :
              <<passes[i].raw, passes[i].key>> # <<rawTransactions, cryptoKey>>)
          => decrypted' = decrypted]_vars

\* a call started under another key returned after the session's key had
\* changed, and the list shown is the one decrypted for the row's own key
C30_Witness ==
  /\ outcome = "hook: published"
  /\ isEnabled
  /\ Len(rawTransactions) = MaxCorpus
  /\ Len(passes) = 1
  /\ passes[1].cancelled
  /\ passes[1].key # cryptoKey
  /\ decrypted.loaded
  /\ decrypted.rows = useDecryptedTransactions
  /\ \E i \in 1..Len(rawTransactions) :
       /\ rawTransactions[i].encrypted
       /\ decrypted.rows[i].description = Plain("coffee")

====
